---- MODULE Spec2Model ----
(***************************************************************************)
(* The LEF statement parser of util.py: the classes Statement, Macro, Pin, *)
(* Port, Obs, LayerDef and Rect, and the driver that feeds one token       *)
(* vector per line to the context on top of a stack.                       *)
(*                                                                         *)
(* Python objects that can be reached by two references (a Pin is in its   *)
(* macro's info["PIN"] list and on the driver's stack) live in `heap` and  *)
(* are named by their index.  LayerDef and Rect objects are reachable only *)
(* through the list that holds them, so they are values inside that list.  *)
(* A dict is a function whose domain is the set of its keys.  A Python     *)
(* list index i is the TLA+ index i + 1.                                   *)
(***************************************************************************)
EXTENDS Integers, Sequences, FiniteSets, TLC

VARIABLES
    heap,    \* the objects created so far, by id
    stack,   \* the driver's stack of active contexts (ids), top last
    status,  \* "running", "aborted" (a -1 came back) or "crashed" (a raise)
    macros,  \* the completed macros (ids), in the order they completed
    data,    \* the token vector delivered last
    ret,     \* what parse_next returned for it
    input,   \* the file being parsed, a sequence of token vectors
    pos,     \* the number of lines of the file read so far
    run,     \* which parse of the file this is: the first or the second
    log      \* what the first parse showed after each of its lines

vars == <<heap, stack, status, macros, data, ret, input, pos, run, log>>

(* ------------------------------ bounds --------------------------------- *)

\* objects created in one parse: the dispatcher, the Macros, Pins, Ports and
\* Obs of the heap, and the LayerDefs and Rects inside them
MaxObjs == 6
\* LayerDefs in the Port or Obs of the layer specification
MaxLayers == 2
\* Rects in one LayerDef of the layer specification
MaxRects == 2

(* ------------------------------ dicts ---------------------------------- *)

EmptyDict == <<>>

Has(d, k) == k \in DOMAIN d

Put(d, k, v) == [x \in (DOMAIN d) \cup {k} |-> IF x = k THEN v ELSE d[x]]

Last(s) == s[Len(s)]

(* ------------------------- parse_next results -------------------------- *)
(* parse_next returns 0 (stay: Continue and Ignored alike), 1 (Done),      *)
(* -1 (Error) or the object to parse next (Enter); or it raises.           *)

RetInt(n) == [kind |-> "int", val |-> n]

RetObj(id) == [kind |-> "obj", val |-> id]

Raise(e) == [kind |-> "raise", exc |-> e]

NoRet == [kind |-> "none"]

Result(h, r) == [heap |-> h, ret |-> r]

(* ----------------------------- float() --------------------------------- *)
(* float(s) on the numeric tokens of the input alphabet, in tenths; any    *)
(* other token raises ValueError.                                          *)

FloatTable ==
    [t \in {"0", "0.0", "1", "1.0", "2.0", "0.5", "1e1"} |->
        CASE t = "0" -> 0
          [] t = "0.0" -> 0
          [] t = "1" -> 10
          [] t = "1.0" -> 10
          [] t = "2.0" -> 20
          [] t = "0.5" -> 5
          [] t = "1e1" -> 100]

IsFloat(t) == t \in DOMAIN FloatTable

PyFloat(t) == FloatTable[t]

\* str(x) of a float x (in tenths), as Macro.__str__ renders a stored value
PyStr(x) ==
    CASE x = 0 -> "0.0"
      [] x = 5 -> "0.5"
      [] x = 10 -> "1.0"
      [] x = 20 -> "2.0"
      [] x = 100 -> "10.0"

(* ---------------------------- constructors ----------------------------- *)

StatementInit == [cls |-> "Statement"]

MacroInit(name) ==
    [cls |-> "Macro", type |-> "MACRO", name |-> name, info |-> EmptyDict]

PinInit(name) ==
    [cls |-> "Pin", type |-> "PIN", name |-> name, info |-> EmptyDict]

PortInit == [cls |-> "Port", type |-> "PORT", name |-> "", info |-> EmptyDict]

ObsInit == [cls |-> "Obs", type |-> "OBS", name |-> "", info |-> EmptyDict]

LayerDefInit(name) == [type |-> "LayerDef", name |-> name, shapes |-> <<>>]

RectInit(points) == [points |-> points]

\* the heap with the info dict of object self replaced
SetInfo(h, self, info) == [h EXCEPT ![self].info = info]

(* ------------------------ Statement.parse_next ------------------------- *)

\* mutant: the dispatcher keeps one Macro object and hands it out again
StatementMacroReuse(h, self, d) ==
    IF Len(d) < 2 THEN Result(h, Raise("IndexError"))
    ELSE IF Len(h) >= 2 THEN Result([h EXCEPT ![2].name = d[2]], RetObj(2))
    ELSE Result(Append(h, MacroInit(d[2])), RetObj(Len(h) + 1))

\* mutant: the macro is named by the keyword token
StatementMacroKeyword(h, self, d) ==
    IF Len(d) < 2 THEN Result(h, Raise("IndexError"))
    ELSE Result(Append(h, MacroInit(d[1])), RetObj(Len(h) + 1))

\* mutant: the dispatcher remembers the macros by name and hands a known one
\* out again
StatementMacroCached(h, self, d) ==
    IF Len(d) < 2 THEN Result(h, Raise("IndexError"))
    ELSE LET known == {i \in 1..Len(h) : h[i].cls = "Macro" /\ h[i].name = d[2]}
         IN  IF known # {} THEN Result(h, RetObj(CHOOSE i \in known : TRUE))
             ELSE Result(Append(h, MacroInit(d[2])), RetObj(Len(h) + 1))

StatementMacro(h, self, d) ==
    IF Len(d) < 2 THEN Result(h, Raise("IndexError"))
    ELSE Result(Append(h, MacroInit(d[2])), RetObj(Len(h) + 1))

StatementEnd(h, self, d) == Result(h, RetInt(1))

\* mutant: the fall-through returns 1 instead of 0
StatementParseNextDone(h, self, d) ==
    IF d[1] = "MACRO" THEN StatementMacro(h, self, d)
    ELSE IF d[1] = "END" THEN StatementEnd(h, self, d)
    ELSE Result(h, RetInt(1))

StatementParseNext(h, self, d) ==
    IF d[1] = "MACRO" THEN StatementMacro(h, self, d)
    ELSE IF d[1] = "END" THEN StatementEnd(h, self, d)
    ELSE Result(h, RetInt(0))

(* -------------------------- Macro.parse_next --------------------------- *)

MacroClass(h, self, d) ==
    IF Len(d) < 2 THEN Result(h, Raise("IndexError"))
    ELSE Result(SetInfo(h, self, Put(h[self].info, "CLASS", d[2])), RetInt(0))

MacroOrigin(h, self, d) ==
    IF Len(d) < 2 THEN Result(h, Raise("IndexError"))
    ELSE IF ~IsFloat(d[2]) THEN Result(h, Raise("ValueError"))
    ELSE IF Len(d) < 3 THEN Result(h, Raise("IndexError"))
    ELSE IF ~IsFloat(d[3]) THEN Result(h, Raise("ValueError"))
    ELSE Result(SetInfo(h, self, Put(h[self].info, "ORIGIN",
                                     <<PyFloat(d[2]), PyFloat(d[3])>>)),
                RetInt(0))

MacroForeign(h, self, d) ==
    Result(SetInfo(h, self, Put(h[self].info, "FOREIGN", SubSeq(d, 2, Len(d)))),
           RetInt(0))

\* mutant: the height is read at index 2, where BY stands
MacroSizeNoBy(h, self, d) ==
    IF Len(d) < 2 THEN Result(h, Raise("IndexError"))
    ELSE IF ~IsFloat(d[2]) THEN Result(h, Raise("ValueError"))
    ELSE IF Len(d) < 3 THEN Result(h, Raise("IndexError"))
    ELSE IF ~IsFloat(d[3]) THEN Result(h, Raise("ValueError"))
    ELSE Result(SetInfo(h, self, Put(h[self].info, "SIZE",
                                     <<PyFloat(d[2]), PyFloat(d[3])>>)),
                RetInt(0))

MacroSize(h, self, d) ==
    IF Len(d) < 2 THEN Result(h, Raise("IndexError"))
    ELSE IF ~IsFloat(d[2]) THEN Result(h, Raise("ValueError"))
    ELSE IF Len(d) < 4 THEN Result(h, Raise("IndexError"))
    ELSE IF ~IsFloat(d[4]) THEN Result(h, Raise("ValueError"))
    ELSE Result(SetInfo(h, self, Put(h[self].info, "SIZE",
                                     <<PyFloat(d[2]), PyFloat(d[4])>>)),
                RetInt(0))

MacroSymmetry(h, self, d) ==
    Result(SetInfo(h, self, Put(h[self].info, "SYMMETRY", SubSeq(d, 2, Len(d)))),
           RetInt(0))

\* mutant: the site is stored under the key of the size
MacroSiteAsSize(h, self, d) ==
    IF Len(d) < 2 THEN Result(h, Raise("IndexError"))
    ELSE Result(SetInfo(h, self, Put(h[self].info, "SIZE", d[2])), RetInt(0))

MacroSite(h, self, d) ==
    IF Len(d) < 2 THEN Result(h, Raise("IndexError"))
    ELSE Result(SetInfo(h, self, Put(h[self].info, "SITE", d[2])), RetInt(0))

\* mutant: the pin handed back is a copy of the one put in the list
MacroPinCopy(h, self, d) ==
    IF Len(d) < 2 THEN Result(h, Raise("IndexError"))
    ELSE LET new_pin == Len(h) + 1
             h1 == Append(Append(h, PinInit(d[2])), PinInit(d[2]))
             info == h[self].info
             pins == IF Has(info, "PIN") THEN info["PIN"] ELSE <<>>
         IN  Result(SetInfo(h1, self, Put(info, "PIN", Append(pins, new_pin))),
                    RetObj(new_pin + 1))

MacroPin(h, self, d) ==
    IF Len(d) < 2 THEN Result(h, Raise("IndexError"))
    ELSE LET new_pin == Len(h) + 1
             h1 == Append(h, PinInit(d[2]))
             info == h[self].info
         IN  IF Has(info, "PIN")
             THEN Result(SetInfo(h1, self,
                                 Put(info, "PIN", Append(info["PIN"], new_pin))),
                         RetObj(new_pin))
             ELSE Result(SetInfo(h1, self, Put(info, "PIN", <<new_pin>>)),
                         RetObj(new_pin))

\* mutant: a second OBS line goes on with the obstruction the macro has
MacroObsKeep(h, self, d) ==
    IF Has(h[self].info, "OBS") THEN Result(h, RetObj(h[self].info["OBS"]))
    ELSE LET new_obs == Len(h) + 1
             h1 == Append(h, ObsInit)
         IN  Result(SetInfo(h1, self, Put(h[self].info, "OBS", new_obs)),
                    RetObj(new_obs))

MacroObs(h, self, d) ==
    LET new_obs == Len(h) + 1
        h1 == Append(h, ObsInit)
    IN  Result(SetInfo(h1, self, Put(h[self].info, "OBS", new_obs)),
               RetObj(new_obs))

\* mutant: END closes the macro whatever name follows it
MacroEndAnyName(h, self, d) ==
    IF Len(d) < 2 THEN Result(h, Raise("IndexError"))
    ELSE Result(h, RetInt(1))

MacroEnd(h, self, d) ==
    IF Len(d) < 2 THEN Result(h, Raise("IndexError"))
    ELSE IF d[2] = h[self].name THEN Result(h, RetInt(1))
    ELSE Result(h, RetInt(-1))

MacroParseNext(h, self, d) ==
    IF d[1] = "CLASS" THEN MacroClass(h, self, d)
    ELSE IF d[1] = "ORIGIN" THEN MacroOrigin(h, self, d)
    ELSE IF d[1] = "FOREIGN" THEN MacroForeign(h, self, d)
    ELSE IF d[1] = "SIZE" THEN MacroSize(h, self, d)
    ELSE IF d[1] = "SYMMETRY" THEN MacroSymmetry(h, self, d)
    ELSE IF d[1] = "SITE" THEN MacroSite(h, self, d)
    ELSE IF d[1] = "PIN" THEN MacroPin(h, self, d)
    ELSE IF d[1] = "OBS" THEN MacroObs(h, self, d)
    ELSE IF d[1] = "END" THEN MacroEnd(h, self, d)
    ELSE Result(h, RetInt(0))

(* --------------------------- Pin.parse_next ---------------------------- *)

PinDirection(h, self, d) ==
    IF Len(d) < 2 THEN Result(h, Raise("IndexError"))
    ELSE Result(SetInfo(h, self, Put(h[self].info, "DIRECTION", d[2])),
                RetInt(0))

\* mutant: USE has a slot of its own
PinUseOwnSlot(h, self, d) ==
    IF Len(d) < 2 THEN Result(h, Raise("IndexError"))
    ELSE Result(SetInfo(h, self, Put(h[self].info, "USE", d[2])), RetInt(0))

PinUse(h, self, d) ==
    IF Len(d) < 2 THEN Result(h, Raise("IndexError"))
    ELSE Result(SetInfo(h, self, Put(h[self].info, "DIRECTION", d[2])),
                RetInt(0))

PinPort(h, self, d) ==
    LET new_port == Len(h) + 1
        h1 == Append(h, PortInit)
    IN  Result(SetInfo(h1, self, Put(h[self].info, "PORT", new_port)),
               RetObj(new_port))

PinShape(h, self, d) ==
    IF Len(d) < 2 THEN Result(h, Raise("IndexError"))
    ELSE Result(SetInfo(h, self, Put(h[self].info, "SHAPE", d[2])), RetInt(0))

\* mutant: END closes the pin whatever name follows it
PinEndAnyName(h, self, d) ==
    IF Len(d) < 2 THEN Result(h, Raise("IndexError"))
    ELSE Result(h, RetInt(1))

\* mutant: a pin closed under the wrong name is emptied
PinEndDiscard(h, self, d) ==
    IF Len(d) < 2 THEN Result(h, Raise("IndexError"))
    ELSE IF d[2] = h[self].name THEN Result(h, RetInt(1))
    ELSE Result(SetInfo(h, self, EmptyDict), RetInt(-1))

PinEnd(h, self, d) ==
    IF Len(d) < 2 THEN Result(h, Raise("IndexError"))
    ELSE IF d[2] = h[self].name THEN Result(h, RetInt(1))
    ELSE Result(h, RetInt(-1))

\* mutant: the pin also opens an OBS block, as the macro does
PinParseNextObs(h, self, d) ==
    IF d[1] = "DIRECTION" THEN PinDirection(h, self, d)
    ELSE IF d[1] = "USE" THEN PinUse(h, self, d)
    ELSE IF d[1] = "PORT" THEN PinPort(h, self, d)
    ELSE IF d[1] = "SHAPE" THEN PinShape(h, self, d)
    ELSE IF d[1] = "OBS" THEN MacroObs(h, self, d)
    ELSE IF d[1] = "END" THEN PinEnd(h, self, d)
    ELSE Result(h, RetInt(0))

PinParseNext(h, self, d) ==
    IF d[1] = "DIRECTION" THEN PinDirection(h, self, d)
    ELSE IF d[1] = "USE" THEN PinUse(h, self, d)
    ELSE IF d[1] = "PORT" THEN PinPort(h, self, d)
    ELSE IF d[1] = "SHAPE" THEN PinShape(h, self, d)
    ELSE IF d[1] = "END" THEN PinEnd(h, self, d)
    ELSE Result(h, RetInt(0))

(* ------------------------- LayerDef.add_rect --------------------------- *)
(* Returns the LayerDef with the rect appended, or the exception raised.   *)

CanAddRect(d) == Len(d) >= 5

\* mutant: the corner points are read one token too early
add_rect_shifted(layer, d) ==
    LET points == <<<<d[1], d[2]>>, <<d[3], d[4]>>>>
    IN  [layer EXCEPT !.shapes = Append(@, RectInit(points))]

add_rect(layer, d) ==
    LET points == <<<<d[2], d[3]>>, <<d[4], d[5]>>>>
    IN  [layer EXCEPT !.shapes = Append(@, RectInit(points))]

(* ----------------------- Port / Obs .parse_next ------------------------ *)

PortEnd(h, self, d) == Result(h, RetInt(1))

PortLayer(h, self, d) ==
    IF Len(d) < 2 THEN Result(h, Raise("IndexError"))
    ELSE LET info == h[self].info
             new_layerdef == LayerDefInit(d[2])
         IN  IF Has(info, "LAYER")
             THEN Result(SetInfo(h, self,
                            Put(info, "LAYER", Append(info["LAYER"], new_layerdef))),
                         RetInt(0))
             ELSE Result(SetInfo(h, self, Put(info, "LAYER", <<new_layerdef>>)),
                         RetInt(0))

\* mutant: the rect goes to the first layer instead of the last
PortRectFirst(h, self, d) ==
    LET info == h[self].info
    IN  IF ~Has(info, "LAYER") THEN Result(h, Raise("KeyError"))
        ELSE IF ~CanAddRect(d) THEN Result(h, Raise("IndexError"))
        ELSE LET layers == info["LAYER"]
             IN  Result(SetInfo(h, self,
                          Put(info, "LAYER",
                              [layers EXCEPT ![1] = add_rect(layers[1], d)])),
                        RetInt(0))

PortRect(h, self, d) ==
    LET info == h[self].info
    IN  IF ~Has(info, "LAYER") THEN Result(h, Raise("KeyError"))
        ELSE IF ~CanAddRect(d) THEN Result(h, Raise("IndexError"))
        ELSE LET layers == info["LAYER"]
                 n == Len(layers)
             IN  Result(SetInfo(h, self,
                          Put(info, "LAYER",
                              [layers EXCEPT ![n] = add_rect(layers[n], d)])),
                        RetInt(0))

\* mutant: a keyword the port does not know is an error
PortParseNextStrict(h, self, d) ==
    IF d[1] = "END" THEN PortEnd(h, self, d)
    ELSE IF d[1] = "LAYER" THEN PortLayer(h, self, d)
    ELSE IF d[1] = "RECT" THEN PortRect(h, self, d)
    ELSE Result(h, RetInt(-1))

PortParseNext(h, self, d) ==
    IF d[1] = "END" THEN PortEnd(h, self, d)
    ELSE IF d[1] = "LAYER" THEN PortLayer(h, self, d)
    ELSE IF d[1] = "RECT" THEN PortRect(h, self, d)
    ELSE Result(h, RetInt(0))

ObsEnd(h, self, d) == Result(h, RetInt(1))

\* mutant: a LAYER line starts the layer list of the obstruction anew
ObsLayerReset(h, self, d) ==
    IF Len(d) < 2 THEN Result(h, Raise("IndexError"))
    ELSE Result(SetInfo(h, self,
                        Put(h[self].info, "LAYER", <<LayerDefInit(d[2])>>)),
                RetInt(0))

ObsLayer(h, self, d) ==
    IF Len(d) < 2 THEN Result(h, Raise("IndexError"))
    ELSE LET info == h[self].info
             new_layerdef == LayerDefInit(d[2])
         IN  IF Has(info, "LAYER")
             THEN Result(SetInfo(h, self,
                            Put(info, "LAYER", Append(info["LAYER"], new_layerdef))),
                         RetInt(0))
             ELSE Result(SetInfo(h, self, Put(info, "LAYER", <<new_layerdef>>)),
                         RetInt(0))

ObsRect(h, self, d) ==
    LET info == h[self].info
    IN  IF ~Has(info, "LAYER") THEN Result(h, Raise("KeyError"))
        ELSE IF ~CanAddRect(d) THEN Result(h, Raise("IndexError"))
        ELSE LET layers == info["LAYER"]
                 n == Len(layers)
             IN  Result(SetInfo(h, self,
                          Put(info, "LAYER",
                              [layers EXCEPT ![n] = add_rect(layers[n], d)])),
                        RetInt(0))

ObsParseNext(h, self, d) ==
    IF d[1] = "END" THEN ObsEnd(h, self, d)
    ELSE IF d[1] = "LAYER" THEN ObsLayer(h, self, d)
    ELSE IF d[1] = "RECT" THEN ObsRect(h, self, d)
    ELSE Result(h, RetInt(0))

(* ------------------------------ driver --------------------------------- *)
(* One context stack, initially just the dispatcher.  Each line goes to    *)
(* the top of the stack; 0 stays, an object is pushed, 1 pops, -1 aborts.  *)
(* An exception raised by parse_next is not caught and ends the parse.     *)

Top == Last(stack)

Running == status = "running" /\ stack # <<>>

LayersOf(o) == IF Has(o.info, "LAYER") THEN o.info["LAYER"] ELSE <<>>

PinsOf(o) == IF Has(o.info, "PIN") THEN o.info["PIN"] ELSE <<>>

Pop == SubSeq(stack, 1, Len(stack) - 1)

Deliver(r, d) ==
    /\ heap' = r.heap
    /\ data' = d
    /\ ret' = r.ret
    /\ IF r.ret.kind = "raise"
          THEN status' = "crashed" /\ UNCHANGED <<stack, macros>>
       ELSE IF r.ret.kind = "obj"
          THEN stack' = Append(stack, r.ret.val) /\ UNCHANGED <<status, macros>>
       ELSE IF r.ret.val = 1
          THEN /\ stack' = Pop
               /\ macros' = IF heap[Top].cls = "Macro"
                               THEN Append(macros, Top) ELSE macros
               /\ UNCHANGED status
       ELSE IF r.ret.val = -1
          THEN status' = "aborted" /\ UNCHANGED <<stack, macros>>
       ELSE UNCHANGED <<stack, status, macros>>

StatementStep(d) ==
    /\ Running /\ heap[Top].cls = "Statement"
    /\ Deliver(StatementParseNext(heap, Top, d), d)

MacroStep(d) ==
    /\ Running /\ heap[Top].cls = "Macro"
    /\ Deliver(MacroParseNext(heap, Top, d), d)

PinStep(d) ==
    /\ Running /\ heap[Top].cls = "Pin"
    /\ Deliver(PinParseNext(heap, Top, d), d)

PortStep(d) ==
    /\ Running /\ heap[Top].cls = "Port"
    /\ Deliver(PortParseNext(heap, Top, d), d)

ObsStep(d) ==
    /\ Running /\ heap[Top].cls = "Obs"
    /\ Deliver(ObsParseNext(heap, Top, d), d)

InitParser ==
    /\ heap = <<StatementInit>>
    /\ stack = <<1>>
    /\ status = "running"
    /\ macros = <<>>
    /\ data = <<>>
    /\ ret = NoRet

(* ------------------- specification: any line next ---------------------- *)
(* The file is left open: any line of Lines may come next, as long as the  *)
(* parse has created at most MaxObjs objects.                              *)

RECURSIVE SumLen(_)
SumLen(ss) == IF ss = <<>> THEN 0 ELSE Len(Head(ss)) + SumLen(Tail(ss))

\* the LayerDefs and Rects held by object o
Held(o) ==
    Len(LayersOf(o))
      + SumLen([k \in 1..Len(LayersOf(o)) |-> LayersOf(o)[k].shapes])

RECURSIVE HeldFrom(_, _)
HeldFrom(h, i) == IF i > Len(h) THEN 0 ELSE Held(h[i]) + HeldFrom(h, i + 1)

Size(h) == Len(h) + HeldFrom(h, 2)

WithinBounds(h) == Size(h) <= MaxObjs

Lines ==
    { <<"MACRO", "M1">>, <<"MACRO", "A">>,
      <<"END">>, <<"END", "M1">>, <<"END", "A">>,
      <<"PIN", "A">>, <<"PORT">>, <<"OBS">>,
      <<"LAYER", "metal1">>, <<"RECT", "0", "0", "1", "1">>, <<"RECT">>,
      <<"DIRECTION", "INPUT">>, <<"PROPERTY", "x">> }

NoFile == UNCHANGED <<input, pos, run, log>>

Init == InitParser /\ input = <<>> /\ pos = 0 /\ run = 1 /\ log = <<>>

Next ==
    \/ \E d \in Lines : StatementStep(d) /\ WithinBounds(heap') /\ NoFile
    \/ \E d \in Lines : MacroStep(d) /\ WithinBounds(heap') /\ NoFile
    \/ \E d \in Lines : PinStep(d) /\ WithinBounds(heap') /\ NoFile
    \/ \E d \in Lines : PortStep(d) /\ WithinBounds(heap') /\ NoFile
    \/ \E d \in Lines : ObsStep(d) /\ WithinBounds(heap') /\ NoFile

Spec == Init /\ [][Next]_vars

(* ------------------- specification: a file is read --------------------- *)
(* The driver reads the lines of one file, in order, to its end.           *)

MacroNames == {"M1", "A"}

PinNames == {"A", "B"}

Directions == {"INPUT", "OUTPUT"}

LayerNames == {"metal1", "metal2"}

Corners == { <<"0", "0", "1", "1">>, <<"2.5", "3", "1", "0">> }

PinFile(M, A, dir, l, r) ==
    << <<"MACRO", M>>, <<"PIN", A>>, <<"DIRECTION", dir>>, <<"PORT">>,
       <<"LAYER", l>>, <<"RECT">> \o r, <<"END">>, <<"END", A>>, <<"END", M>> >>

ObsFile(M, l, r) ==
    << <<"MACRO", M>>, <<"OBS">>, <<"LAYER", l>>, <<"RECT">> \o r,
       <<"END">>, <<"END", M>> >>

Classes == {"CORE", "PAD"}

Origins == { <<"0.0", "0.0">>, <<"1", "0.5">> }

Foreigns == { <<"M1">>, <<"M1", "0.0", "0.0">> }

Sizes == { <<"1.0", "2.0">>, <<"1e1", "1">> }

Symmetries == { <<"X", "Y">>, <<"R90">> }

Sites == {"core"}

AttrFile(M, c, o, f, z, y, s) ==
    << <<"MACRO", M>>, <<"CLASS", c>>, <<"ORIGIN">> \o o, <<"FOREIGN">> \o f,
       <<"SIZE", z[1], "BY", z[2]>>, <<"SYMMETRY">> \o y, <<"SITE", s>>,
       <<"END", M>> >>

\* ORIGIN and SIZE lines with a token that is no floating-point literal
BadNumLines ==
    { <<"ORIGIN", "abc", "0.0">>, <<"ORIGIN", "0.0", "abc">>,
      <<"SIZE", "x", "BY", "2.0">>, <<"SIZE", "1.0", "BY", "y">> }

BadNumFile(M, o, z, bad) ==
    << <<"MACRO", M>>, <<"ORIGIN">> \o o, <<"SIZE", z[1], "BY", z[2]>>, bad,
       <<"END", M>> >>

Files ==
    { PinFile(M, A, dir, l, r) :
        M \in MacroNames, A \in PinNames, dir \in Directions,
        l \in LayerNames, r \in Corners }
    \cup { ObsFile(M, l, r) : M \in MacroNames, l \in LayerNames, r \in Corners }
    \cup { AttrFile(M, c, o, f, z, y, s) :
             M \in MacroNames, c \in Classes, o \in Origins, f \in Foreigns,
             z \in Sizes, y \in Symmetries, s \in Sites }
    \cup { BadNumFile(M, o, z, bad) :
             M \in MacroNames, o \in Origins, z \in Sizes, bad \in BadNumLines }

MoreLines == pos < Len(input)

NextLine == pos' = pos + 1 /\ input' = input /\ run' = run

ReadLine == NextLine /\ log' = log

InitFile == InitParser /\ input \in Files /\ pos = 0 /\ run = 1 /\ log = <<>>

NextFile ==
    \/ MoreLines /\ StatementStep(input[pos + 1]) /\ ReadLine
    \/ MoreLines /\ MacroStep(input[pos + 1]) /\ ReadLine
    \/ MoreLines /\ PinStep(input[pos + 1]) /\ ReadLine
    \/ MoreLines /\ PortStep(input[pos + 1]) /\ ReadLine
    \/ MoreLines /\ ObsStep(input[pos + 1]) /\ ReadLine

SpecFile == InitFile /\ [][NextFile]_vars

(* ---------------- specification: one block of layers ------------------- *)
(* One macro with one PORT (in one pin) or one OBS block, whose LAYER and  *)
(* RECT lines are free.                                                    *)

LayerLines ==
    { <<"MACRO", "M1">>, <<"PIN", "A">>, <<"PORT">>, <<"OBS">>, <<"END">>,
      <<"LAYER", "metal1">>, <<"LAYER", "metal2">>,
      <<"RECT", "0", "0", "1", "1">>, <<"RECT", "2.5", "3", "1", "0">> }

CountCls(h, cs) == Cardinality({i \in 1..Len(h) : h[i].cls \in cs})

OneBlock(h) ==
    /\ CountCls(h, {"Port", "Obs"}) <= 1
    /\ CountCls(h, {"Pin"}) <= 1
    /\ \A i \in 2..Len(h) :
          /\ Len(LayersOf(h[i])) <= MaxLayers
          /\ \A k \in 1..Len(LayersOf(h[i])) :
                Len(LayersOf(h[i])[k].shapes) <= MaxRects

NextLayers ==
    \/ \E d \in LayerLines : StatementStep(d) /\ OneBlock(heap') /\ NoFile
    \/ \E d \in LayerLines : MacroStep(d) /\ OneBlock(heap') /\ NoFile
    \/ \E d \in LayerLines : PinStep(d) /\ OneBlock(heap') /\ NoFile
    \/ \E d \in LayerLines : PortStep(d) /\ OneBlock(heap') /\ NoFile
    \/ \E d \in LayerLines : ObsStep(d) /\ OneBlock(heap') /\ NoFile

SpecLayers == Init /\ [][NextLayers]_vars

(* ---------------- specification: attribute lines ----------------------- *)
(* One macro with one pin, whose attribute lines are free.                 *)

AttrLines ==
    { <<"MACRO", "M1">>, <<"PIN", "A">>, <<"END", "A">>,
      <<"CLASS", "CORE">>, <<"CLASS", "PAD">>, <<"CLASS">>,
      <<"ORIGIN", "0.0", "0.0">>, <<"ORIGIN", "1", "0.5">>,
      <<"FOREIGN", "M1">>, <<"FOREIGN", "M1", "0.0", "0.0">>,
      <<"SIZE", "1.0", "BY", "2.0">>, <<"SIZE", "1e1", "BY", "1">>,
      <<"SYMMETRY", "X", "Y">>, <<"SITE", "core">>,
      <<"DIRECTION", "INPUT">>, <<"DIRECTION", "OUTPUT">>,
      <<"USE", "SIGNAL">>, <<"USE", "POWER">>,
      <<"SHAPE", "ABUTMENT">>, <<"SHAPE", "RING">> }

OnePin(h) == CountCls(h, {"Macro"}) <= 1 /\ CountCls(h, {"Pin"}) <= 1

NextAttr ==
    \/ \E d \in AttrLines : StatementStep(d) /\ OnePin(heap') /\ NoFile
    \/ \E d \in AttrLines : MacroStep(d) /\ OnePin(heap') /\ NoFile
    \/ \E d \in AttrLines : PinStep(d) /\ OnePin(heap') /\ NoFile

SpecAttr == Init /\ [][NextAttr]_vars

(* --------------- specification: a Port beside an Obs ------------------- *)
(* A new Port (object 1) and a new Obs (object 2) receive the same lines;  *)
(* ret holds the pair of their results.  An exception ends the run.        *)

PairLines ==
    { <<"END">>, <<"END", "A">>, <<"LAYER", "metal1">>, <<"LAYER", "metal2">>,
      <<"LAYER">>, <<"RECT", "0", "0", "1", "1">>, <<"RECT", "2.5", "3", "1", "0">>,
      <<"RECT">>, <<"PROPERTY", "x">> }

InitPair ==
    /\ heap = <<PortInit, ObsInit>>
    /\ stack = <<>>
    /\ status = "running"
    /\ macros = <<>>
    /\ data = <<>>
    /\ ret = <<NoRet, NoRet>>
    /\ input = <<>>
    /\ pos = 0
    /\ run = 1
    /\ log = <<>>

PairStep(d) ==
    LET port == PortParseNext(heap, 1, d)
        obs == ObsParseNext(port.heap, 2, d)
    IN  /\ status = "running"
        /\ heap' = obs.heap
        /\ data' = d
        /\ ret' = <<port.ret, obs.ret>>
        /\ status' = IF "raise" \in {port.ret.kind, obs.ret.kind}
                        THEN "crashed" ELSE "running"
        /\ \A i \in 1..2 :
              /\ Len(LayersOf(heap'[i])) <= MaxLayers
              /\ \A k \in 1..Len(LayersOf(heap'[i])) :
                    Len(LayersOf(heap'[i])[k].shapes) <= MaxRects
        /\ UNCHANGED <<stack, macros, input, pos, run, log>>

NextPair == \E d \in PairLines : PairStep(d)

SpecPair == InitPair /\ [][NextPair]_vars

(* ------------------------------ claims --------------------------------- *)

Cls(i) == heap[i].cls

TopIs(c) == stack # <<>> /\ Cls(Top) = c

\* the line delivered by this step is `END <x>`
EndNamed == data'[1] = "END" /\ Len(data') >= 2

Done == RetInt(1)

Error == RetInt(-1)

Stay == RetInt(0)

\* C1: a Macro named N that receives `END <x>` returns Done when x = N (and
\* the driver pops it) and Error when x # N; a mismatching END never closes
\* the macro: it stays on the stack and is not added to the completed macros.
C1_MacroEnd ==
    [][(Running /\ TopIs("Macro") /\ EndNamed) =>
          IF data'[2] = heap[Top].name
          THEN ret' = Done /\ stack' = Pop /\ macros' = Append(macros, Top)
          ELSE /\ ret' = Error
               /\ stack' = stack /\ macros' = macros /\ status' = "aborted"]_vars

C1_Witness ==
    /\ TopIs("Macro") /\ status = "aborted" /\ ret = Error
    /\ data[1] = "END" /\ Len(data) = 2 /\ data[2] # heap[Top].name
    /\ macros = <<>>

\* C2: a RECT delivered to a Port or Obs that has no layer yet has the
\* structured Error as its outcome (no failed access to the layer list).
C2_RectBeforeLayer ==
    (/\ stack # <<>> /\ Cls(Top) \in {"Port", "Obs"}
     /\ data # <<>> /\ data[1] = "RECT"
     /\ LayersOf(heap[Top]) = <<>>)
    => (ret = Error /\ status = "aborted")

\* the keywords each class's parse_next recognizes
Keywords(c) ==
    CASE c = "Statement" -> {"MACRO", "END"}
      [] c = "Macro" -> {"CLASS", "ORIGIN", "FOREIGN", "SIZE", "SYMMETRY",
                         "SITE", "PIN", "OBS", "END"}
      [] c = "Pin" -> {"DIRECTION", "USE", "PORT", "SHAPE", "END"}
      [] c = "Port" -> {"END", "LAYER", "RECT"}
      [] c = "Obs" -> {"END", "LAYER", "RECT"}

\* C3: in every context a line whose keyword the context does not recognize
\* returns 0 (Ignored, the same as Continue), changes no object, and does not
\* push, pop or abort.
C3_UnknownIgnored ==
    [][(Running /\ data'[1] \notin Keywords(Cls(Top))) =>
          /\ ret' = Stay
          /\ UNCHANGED <<heap, stack, status, macros>>]_vars

C3_Witness ==
    /\ TopIs("Pin") /\ status = "running" /\ ret = Stay
    /\ data[1] = "PROPERTY"
    /\ Has(heap[Top].info, "DIRECTION") /\ Has(heap[Top].info, "PORT")

\* the classes of the contexts on the stack, bottom first
StackCls == [i \in 1..Len(stack) |-> Cls(stack[i])]

Nesting == <<"Statement", "Macro", "Pin", "Port">>

\* the depth of the stack after each line of a PinFile
PinFileDepth == <<1, 2, 3, 3, 4, 4, 4, 3, 2, 1>>

\* C4: parsing MACRO M / PIN A / DIRECTION d / PORT / LAYER l / RECT r / END /
\* END A / END M sends each line to the innermost open context, ends with
\* only the dispatcher on the stack, and yields macro M whose one pin is A
\* with direction d and a port whose one layer l holds exactly the rect r.
C4_NestedPinPort ==
    \A M \in MacroNames, A \in PinNames, dir \in Directions,
       l \in LayerNames, r \in Corners :
        input = PinFile(M, A, dir, l, r) =>
          /\ status = "running"
          /\ StackCls = SubSeq(Nesting, 1, PinFileDepth[pos + 1])
          /\ pos = Len(input) =>
                /\ Len(macros) = 1
                /\ LET m == heap[macros[1]]
                       pins == PinsOf(m)
                   IN  /\ m.name = M
                       /\ Len(pins) = 1
                       /\ LET pin == heap[pins[1]]
                          IN  /\ pin.name = A
                              /\ pin.info["DIRECTION"] = dir
                              /\ LayersOf(heap[pin.info["PORT"]]) =
                                   << [type |-> "LayerDef", name |-> l,
                                       shapes |-> << [points |->
                                          << <<r[1], r[2]>>, <<r[3], r[4]>> >>] >>] >>

C4_Witness ==
    /\ input = PinFile("A", "A", "OUTPUT", "metal2", <<"2.5", "3", "1", "0">>)
    /\ pos = Len(input) /\ stack = <<1>> /\ macros = <<2>>
    /\ heap[4].info["LAYER"][1].shapes # <<>>

Range(f) == {f[i] : i \in DOMAIN f}

MacroIds(h) == {i \in 1..Len(h) : h[i].cls = "Macro"}

\* a pin and a macro with the objects they refer to in place of the ids
PinTree(h, p) ==
    [name |-> h[p].name,
     info |-> [k \in DOMAIN h[p].info |->
                 IF k = "PORT" THEN h[h[p].info[k]] ELSE h[p].info[k]]]

MacroTree(h, m) ==
    [name |-> h[m].name,
     info |-> [k \in DOMAIN h[m].info |->
                 IF k = "PIN"
                 THEN [i \in 1..Len(h[m].info[k]) |-> PinTree(h, h[m].info[k][i])]
                 ELSE IF k = "OBS" THEN h[h[m].info[k]]
                 ELSE h[m].info[k]]]

\* C5: the completed macros are distinct records in file order; a line
\* processed while a macro is not active (another macro is, or none) changes
\* nothing of that macro, its pins, ports, obstruction and layers; and each
\* MACRO line starts a new macro with no field, pin or obstruction.
C5_TwoMacros ==
    /\ [](/\ \A i \in 1..Len(macros) : Cls(macros[i]) = "Macro"
          /\ \A i, j \in 1..Len(macros) : i < j => macros[i] < macros[j])
    /\ [][/\ \A m \in MacroIds(heap) :
               m \notin Range(stack) => MacroTree(heap', m) = MacroTree(heap, m)
          /\ (Running /\ TopIs("Statement") /\ ret'.kind = "obj") =>
               /\ ret'.val \notin 1..Len(heap)
               /\ stack' = Append(stack, ret'.val)
               /\ heap'[ret'.val].name = data'[2]
               /\ heap'[ret'.val].info = <<>>]_vars

C5_Witness ==
    /\ Len(macros) = 2
    /\ heap[macros[1]].name # heap[macros[2]].name
    /\ PinsOf(heap[macros[1]]) # <<>> /\ PinsOf(heap[macros[2]]) # <<>>
    /\ ~Has(heap[PinsOf(heap[macros[1]])[1]].info, "DIRECTION")
    /\ Has(heap[PinsOf(heap[macros[2]])[1]].info, "DIRECTION")

\* C6: a Pin named N that receives `END <x>` returns Done when x = N (the
\* driver pops the pin alone) and Error when x # N; a mismatching END, such
\* as the END of the enclosing macro, closes neither the pin nor the macro.
C6_PinEnd ==
    [][(Running /\ TopIs("Pin") /\ EndNamed) =>
          IF data'[2] = heap[Top].name
          THEN /\ ret' = Done /\ stack' = Pop
               /\ macros' = macros /\ status' = "running"
          ELSE /\ ret' = Error
               /\ stack' = stack /\ macros' = macros /\ status' = "aborted"]_vars

C6_Witness ==
    /\ TopIs("Pin") /\ status = "aborted" /\ ret = Error
    /\ data[1] = "END" /\ Len(data) = 2
    /\ data[2] = heap[stack[Len(stack) - 1]].name
    /\ data[2] # heap[Top].name
    /\ macros = <<>>

\* C7: in a Port or Obs, a RECT line appends exactly its rect to the last
\* layer and leaves the earlier layers as they were, a LAYER line appends an
\* empty layer, and no other line changes the layers; so each layer holds,
\* in order, the RECT lines between its LAYER line and the next one.
C7_RectToLastLayer ==
    [][(Running /\ Cls(Top) \in {"Port", "Obs"}) =>
          LET old == LayersOf(heap[Top])
              new == LayersOf(heap'[Top])
              n == Len(old)
              d == data'
          IN  IF d[1] = "RECT" /\ Len(d) = 5 /\ n > 0
              THEN /\ Len(new) = n
                   /\ \A k \in 1..(n - 1) : new[k] = old[k]
                   /\ new[n].name = old[n].name
                   /\ new[n].shapes =
                        Append(old[n].shapes,
                               [points |-> << <<d[2], d[3]>>, <<d[4], d[5]>> >>])
              ELSE IF d[1] = "LAYER" /\ Len(d) = 2
              THEN new = Append(old, [type |-> "LayerDef", name |-> d[2],
                                      shapes |-> <<>>])
              ELSE new = old]_vars

C7_Witness ==
    /\ TopIs("Port") /\ status = "running"
    /\ data = <<"RECT", "2.5", "3", "1", "0">>
    /\ LET layers == LayersOf(heap[Top])
       IN  /\ Len(layers) = 2
           /\ layers[1].name = "metal2" /\ layers[2].name = "metal1"
           /\ Len(layers[1].shapes) = 1
           /\ layers[1].shapes[1].points = << <<"0", "0">>, <<"1", "1">> >>
           /\ Len(layers[2].shapes) = 2
           /\ layers[2].shapes[1].points = << <<"0", "0">>, <<"1", "1">> >>
           /\ layers[2].shapes[2].points = << <<"2.5", "3">>, <<"1", "0">> >>

StackShapes ==
    { <<>>, <<"Statement">>, <<"Statement", "Macro">>,
      <<"Statement", "Macro", "Pin">>,
      <<"Statement", "Macro", "Pin", "Port">>,
      <<"Statement", "Macro", "Obs">> }

Entries ==
    { <<"Statement", "Macro">>, <<"Macro", "Pin">>, <<"Macro", "Obs">>,
      <<"Pin", "Port">> }

\* C8: the stack is always one of the six shapes (empty only after the
\* top-level END); each line changes its depth by at most one, and a context
\* is pushed only onto its parent: Macro on the dispatcher, Pin and Obs on a
\* Macro, Port on a Pin.
C8_StackShape ==
    /\ [](/\ StackCls \in StackShapes
          /\ stack = <<>> => (data[1] = "END" /\ ret = Done))
    /\ [][/\ Len(stack') - Len(stack) \in {-1, 0, 1}
          /\ Len(stack') > Len(stack) =>
               /\ stack' = Append(stack, Last(stack'))
               /\ <<Cls(Top), heap'[Last(stack')].cls>> \in Entries
          /\ Len(stack') < Len(stack) => stack' = Pop]_vars

C8_Witness ==
    /\ StackCls = <<"Statement", "Macro", "Pin", "Port">>
    /\ data[1] = "RECT" /\ ret = Stay /\ status = "running"
    /\ Len(LayersOf(heap[Top])[1].shapes) = 1

\* C9: 1 (Done) is returned only for a line whose keyword is END; an END
\* line goes to the top context alone, changes no object and pops at most
\* that one context, so a context leaves the stack only from the top.
C9_EndPopsTop ==
    [][/\ ret' = Done => data'[1] = "END"
       /\ Len(stack') < Len(stack) =>
            (data'[1] = "END" /\ ret' = Done /\ stack' = Pop)
       /\ data'[1] = "END" =>
            (heap' = heap /\ (stack' = stack \/ (ret' = Done /\ stack' = Pop)))]_vars

C9_Witness ==
    /\ TopIs("Pin") /\ data = <<"END">> /\ ret = Done /\ status = "running"
    /\ Has(heap[Top].info, "PORT")
    /\ LayersOf(heap[heap[Top].info["PORT"]]) # <<>>

\* C10: the dispatcher returns a new Macro named token[1], with an empty
\* info, on `MACRO <name>`; returns 1 (Done) on END; returns 0 (Ignored) on
\* every other keyword; and no line changes the dispatcher object.
C10_Dispatcher ==
    /\ [](heap[1] = [cls |-> "Statement"])
    /\ [][(Running /\ TopIs("Statement")) =>
            IF data'[1] = "MACRO"
            THEN Len(data') >= 2 =>
                   /\ ret' = RetObj(Len(heap) + 1)
                   /\ heap' = Append(heap, [cls |-> "Macro", type |-> "MACRO",
                                            name |-> data'[2], info |-> <<>>])
            ELSE IF data'[1] = "END"
            THEN ret' = Done /\ heap' = heap
            ELSE ret' = Stay /\ heap' = heap]_vars

C10_Witness ==
    /\ TopIs("Macro") /\ ret = RetObj(Top) /\ data = <<"MACRO", "A">>
    /\ Len(macros) = 1 /\ PinsOf(heap[macros[1]]) # <<>>
    /\ heap[Top].name = "A" /\ heap[Top].info = <<>>

\* the macro completed by an AttrFile, once the file is read
AttrMacro == heap[macros[1]]

AttrFileRead(M, c, o, f, z, y, s) ==
    input = AttrFile(M, c, o, f, z, y, s) /\ pos = Len(input)

\* C11 (as amended): parsing MACRO M / CLASS / ORIGIN / FOREIGN / SIZE /
\* SYMMETRY / SITE / END M returns 0 (Continue) for each attribute line and
\* yields one macro M whose info is exactly class = token[1], origin =
\* (float(token[1]), float(token[2])), foreign = token[1:], size =
\* (float(token[1]), float(token[3])), symmetry = token[1:], site = token[1],
\* with no pins and no obstruction.
C11_MacroFields ==
    \A M \in MacroNames, c \in Classes, o \in Origins, f \in Foreigns,
       z \in Sizes, y \in Symmetries, s \in Sites :
        input = AttrFile(M, c, o, f, z, y, s) =>
          /\ status = "running"
          /\ pos \in 2..7 => ret = Stay
          /\ pos = Len(input) =>
                /\ stack = <<1>> /\ Len(macros) = 1
                /\ AttrMacro.name = M
                /\ AttrMacro.info =
                     [k \in {"CLASS", "ORIGIN", "FOREIGN", "SIZE", "SYMMETRY",
                              "SITE"} |->
                        CASE k = "CLASS" -> c
                          [] k = "ORIGIN" -> <<PyFloat(o[1]), PyFloat(o[2])>>
                          [] k = "FOREIGN" -> f
                          [] k = "SIZE" -> <<PyFloat(z[1]), PyFloat(z[2])>>
                          [] k = "SYMMETRY" -> y
                          [] k = "SITE" -> s]

C11_Witness ==
    /\ AttrFileRead("M1", "PAD", <<"1", "0.5">>, <<"M1", "0.0", "0.0">>,
                    <<"1e1", "1">>, <<"R90">>, "core")
    /\ macros = <<2>>
    /\ heap[2].info["ORIGIN"] = <<10, 5>> /\ heap[2].info["SIZE"] = <<100, 10>>

\* C11 (as claimed): the origin and size stored are the tokens themselves:
\* origin = (token[1], token[2]) and size = (token[1], token[3]).
C11_FieldsAreTokens ==
    \A M \in MacroNames, c \in Classes, o \in Origins, f \in Foreigns,
       z \in Sizes, y \in Symmetries, s \in Sites :
        AttrFileRead(M, c, o, f, z, y, s) =>
          /\ Len(macros) = 1
          /\ AttrMacro.info["CLASS"] = c
          /\ PyStr(AttrMacro.info["ORIGIN"][1]) = o[1]
          /\ PyStr(AttrMacro.info["ORIGIN"][2]) = o[2]
          /\ PyStr(AttrMacro.info["SIZE"][1]) = z[1]
          /\ PyStr(AttrMacro.info["SIZE"][2]) = z[2]

\* C12: an ORIGIN or SIZE line whose numeric tokens are no floating-point
\* literals has the Error outcome, with the parse aborted by the driver and
\* not ended by an exception.
C12_BadNumberIsError ==
    data \in BadNumLines => (ret = Error /\ status = "aborted")

PinIds(h) == {i \in 1..Len(h) : h[i].cls = "Pin"}

\* C14: in a Pin, `USE <v>` stores v in the DIRECTION slot, as `DIRECTION <v>`
\* does, and leaves every other slot alone; so the slot holds the argument
\* of the last DIRECTION or USE line, and no pin ever has a USE slot.
C14_UseIsDirection ==
    /\ [](\A p \in PinIds(heap) : ~Has(heap[p].info, "USE"))
    /\ [][(/\ Running /\ TopIs("Pin")
           /\ data'[1] \in {"DIRECTION", "USE"} /\ Len(data') = 2) =>
            LET old == heap[Top].info
                new == heap'[Top].info
            IN  /\ ret' = Stay
                /\ DOMAIN new = DOMAIN old \cup {"DIRECTION"}
                /\ new["DIRECTION"] = data'[2]
                /\ \A k \in DOMAIN old \ {"DIRECTION"} : new[k] = old[k]]_vars

C14_Witness ==
    /\ TopIs("Pin") /\ status = "running" /\ data = <<"USE", "POWER">>
    /\ DOMAIN heap[Top].info = {"DIRECTION", "SHAPE"}
    /\ heap[Top].info["DIRECTION"] = "POWER"

MacroAttrs == {"CLASS", "ORIGIN", "FOREIGN", "SIZE", "SYMMETRY", "SITE"}

PinAttrs == {"DIRECTION", "SHAPE"}

\* the line carries the arguments its keyword reads
WellFormed(d) ==
    CASE d[1] \in {"CLASS", "SITE", "DIRECTION", "SHAPE"} -> Len(d) >= 2
      [] d[1] = "ORIGIN" -> Len(d) >= 3 /\ IsFloat(d[2]) /\ IsFloat(d[3])
      [] d[1] = "SIZE" -> Len(d) >= 4 /\ IsFloat(d[2]) /\ IsFloat(d[4])
      [] OTHER -> TRUE

\* the value an attribute line gives its field
AttrValue(d) ==
    CASE d[1] \in {"CLASS", "SITE", "DIRECTION", "SHAPE"} -> d[2]
      [] d[1] = "ORIGIN" -> <<PyFloat(d[2]), PyFloat(d[3])>>
      [] d[1] = "SIZE" -> <<PyFloat(d[2]), PyFloat(d[4])>>
      [] d[1] \in {"FOREIGN", "SYMMETRY"} -> SubSeq(d, 2, Len(d))

\* C19: an attribute line that carries its arguments (CLASS, ORIGIN, FOREIGN,
\* SIZE, SYMMETRY, SITE in a Macro; DIRECTION, SHAPE in a Pin) gives its own
\* field its new value, whatever the field held, changes no other field, no
\* name and no other object, and returns 0 without a push or a pop.
C19_AttrSetsOwnField ==
    [][(/\ Running
        /\ \/ TopIs("Macro") /\ data'[1] \in MacroAttrs
           \/ TopIs("Pin") /\ data'[1] \in PinAttrs
        /\ WellFormed(data')) =>
          LET old == heap[Top].info
              new == heap'[Top].info
              key == data'[1]
          IN  /\ ret' = Stay
              /\ UNCHANGED <<stack, status, macros>>
              /\ Len(heap') = Len(heap)
              /\ \A i \in 1..Len(heap) : i # Top => heap'[i] = heap[i]
              /\ heap'[Top].name = heap[Top].name
              /\ heap'[Top].cls = heap[Top].cls
              /\ DOMAIN new = DOMAIN old \cup {key}
              /\ new[key] = AttrValue(data')
              /\ \A k \in DOMAIN old \ {key} : new[k] = old[k]]_vars

C19_Witness ==
    /\ TopIs("Macro") /\ status = "running"
    /\ data = <<"SIZE", "1e1", "BY", "1">> /\ ret = Stay
    /\ DOMAIN heap[Top].info = MacroAttrs \cup {"PIN"}
    /\ heap[Top].info["SIZE"] = <<100, 10>>
    /\ heap[Top].info["SITE"] = "core"
    /\ Len(heap[Top].info["PIN"]) = 1
    /\ LET p == heap[Top].info["PIN"][1]
       IN  Has(heap[p].info, "SHAPE") /\ heap[p].info["SHAPE"] = "RING"

\* the step replaces slot k of the top context by a new object equal to
\* fresh, returns it, and the driver enters it
Replaces(k, fresh) ==
    LET new == Len(heap) + 1
        old == heap[Top].info
    IN  /\ ret' = RetObj(new)
        /\ Len(heap') = new
        /\ heap'[new] = fresh
        /\ \A i \in 1..Len(heap) : i # Top => heap'[i] = heap[i]
        /\ heap'[Top].name = heap[Top].name
        /\ DOMAIN heap'[Top].info = DOMAIN old \cup {k}
        /\ heap'[Top].info[k] = new
        /\ \A j \in DOMAIN old \ {k} : heap'[Top].info[j] = old[j]
        /\ stack' = Append(stack, new)

\* C15: each OBS line in a Macro makes a new Obs with no layer the macro's one
\* obstruction, in place of the one it had (whose layers the macro no longer
\* refers to), and each PORT line in a Pin does the same with a new Port.
C15_ObsPortReplaced ==
    [][/\ (Running /\ TopIs("Macro") /\ data'[1] = "OBS") =>
            (Replaces("OBS", ObsInit) /\ MacroTree(heap', Top).info["OBS"] = ObsInit)
       /\ (Running /\ TopIs("Pin") /\ data'[1] = "PORT") =>
            (Replaces("PORT", PortInit) /\ PinTree(heap', Top).info["PORT"] = PortInit)]_vars

C15_Witness ==
    /\ TopIs("Obs") /\ status = "running" /\ data = <<"OBS">>
    /\ Len(stack) = 3 /\ Cls(stack[2]) = "Macro"
    /\ heap[stack[2]].info["OBS"] = Top
    /\ heap[Top] = ObsInit
    /\ \E i \in 1..Len(heap) :
          i # Top /\ Cls(i) = "Obs" /\ Len(LayersOf(heap[i])) = 1

IsPrefix(s, t) == Len(s) <= Len(t) /\ SubSeq(t, 1, Len(s)) = s

\* C16: a `PIN <name>` line appends one new Pin named <name> to the macro's
\* pin list and the context entered is that very Pin; no other step changes
\* a pin list; so the pin being filled is the last element of its macro's
\* list, also when it is never closed or closes with Error.
C16_PinsAppendOnly ==
    /\ [](TopIs("Pin") =>
            /\ Len(stack) >= 2 /\ Cls(stack[Len(stack) - 1]) = "Macro"
            /\ PinsOf(heap[stack[Len(stack) - 1]]) # <<>>
            /\ Last(PinsOf(heap[stack[Len(stack) - 1]])) = Top)
    /\ [](\A p \in PinIds(heap) :
            Cardinality({<<m, i>> \in MacroIds(heap) \X (1..Len(heap)) :
                           i <= Len(PinsOf(heap[m])) /\ PinsOf(heap[m])[i] = p}) = 1)
    /\ [][/\ (Running /\ TopIs("Macro") /\ data'[1] = "PIN" /\ Len(data') >= 2) =>
              LET new == Len(heap) + 1
              IN  /\ ret' = RetObj(new)
                  /\ Len(heap') = new
                  /\ heap'[new] = PinInit(data'[2])
                  /\ PinsOf(heap'[Top]) = Append(PinsOf(heap[Top]), new)
                  /\ stack' = Append(stack, new)
          /\ \A m \in MacroIds(heap) :
                /\ IsPrefix(PinsOf(heap[m]), PinsOf(heap'[m]))
                /\ PinsOf(heap'[m]) # PinsOf(heap[m]) =>
                      (m = Top /\ data'[1] = "PIN")]_vars

C16_Witness ==
    /\ TopIs("Pin") /\ status = "aborted" /\ ret = Error
    /\ Len(PinsOf(heap[stack[Len(stack) - 1]])) = 2
    /\ Last(PinsOf(heap[stack[Len(stack) - 1]])) = Top
    /\ Has(heap[Top].info, "DIRECTION") /\ Has(heap[Top].info, "PORT")

\* C18: an END line that returns Done or Error in a Macro or a Pin leaves the
\* name, every field, the pin list, the port and the obstruction of the
\* record as they were, and every other object too; so do the steps after an
\* abort, of which there are none.
C18_EndMutatesNothing ==
    [][(/\ Running /\ data'[1] = "END" /\ ret' \in {Done, Error}
        /\ Cls(Top) \in {"Macro", "Pin"}) =>
          /\ heap'[Top] = heap[Top]
          /\ Len(heap') = Len(heap)
          /\ IF Cls(Top) = "Macro"
                THEN MacroTree(heap', Top) = MacroTree(heap, Top)
                ELSE PinTree(heap', Top) = PinTree(heap, Top)
          /\ \A m \in MacroIds(heap) : MacroTree(heap', m) = MacroTree(heap, m)]_vars

C18_Witness ==
    /\ TopIs("Macro") /\ status = "aborted" /\ ret = Error /\ data = <<"END", "A">>
    /\ DOMAIN heap[Top].info = {"PIN", "OBS"}
    /\ LayersOf(heap[heap[Top].info["OBS"]]) # <<>>
    /\ Has(heap[heap[Top].info["PIN"][1]].info, "DIRECTION")

\* C20: a Macro or a Pin that receives a bare `END` returns Done or Error and
\* is left unchanged.
C20_BareEnd ==
    [][(Running /\ Cls(Top) \in {"Macro", "Pin"} /\ data' = <<"END">>) =>
          (ret' \in {Done, Error} /\ heap' = heap)]_vars

\* C17: a Port and an Obs given the same lines return the same result on
\* every line and hold the same layer list after every line; a line that
\* starts with END returns Done in both, whatever follows the keyword, and
\* changes neither.
C17_PortObsAlike ==
    /\ [](ret[1] = ret[2] /\ heap[1].info = heap[2].info)
    /\ [][data'[1] = "END" => (ret' = <<Done, Done>> /\ heap' = heap)]_vars

C17_Witness ==
    /\ data = <<"END", "A">> /\ ret = <<Done, Done>>
    /\ Len(LayersOf(heap[1])) = 2
    /\ LayersOf(heap[1])[1].name # LayersOf(heap[1])[2].name
    /\ Len(LayersOf(heap[1])[2].shapes) = 2
    /\ LayersOf(heap[2]) = LayersOf(heap[1])

(* ---------------- specification: the same file twice ------------------- *)
(* A file is parsed, then parsed again in the same process by a second     *)
(* parser: a new dispatcher, a stack of its own and no completed macro.    *)
(* The objects of the first parse are still in the heap.                   *)

\* object i with the objects it refers to in place of their ids
Tree(h, i) ==
    IF h[i].cls = "Macro" THEN <<"Macro", MacroTree(h, i)>>
    ELSE IF h[i].cls = "Pin" THEN <<"Pin", PinTree(h, i)>>
    ELSE <<h[i].cls, h[i]>>

\* what a parse shows after a line: the outcome, the contexts on the stack
\* and the completed macros, as record trees
Snapshot ==
    [ret |-> IF ret.kind = "obj" THEN <<"obj", Tree(heap, ret.val)>>
             ELSE <<ret.kind, ret>>,
     stack |-> [i \in 1..Len(stack) |-> Tree(heap, stack[i])],
     status |-> status,
     macros |-> [i \in 1..Len(macros) |-> MacroTree(heap, macros[i])]]

Logged == log' = IF run = 1 THEN Append(log, Snapshot') ELSE log

Restart ==
    /\ run = 1
    /\ ~MoreLines \/ ~Running
    /\ heap' = Append(heap, StatementInit)
    /\ stack' = <<Len(heap) + 1>>
    /\ status' = "running"
    /\ macros' = <<>>
    /\ data' = <<>>
    /\ ret' = NoRet
    /\ pos' = 0
    /\ run' = 2
    /\ UNCHANGED <<input, log>>

NextTwice ==
    \/ MoreLines /\ StatementStep(input[pos + 1]) /\ NextLine /\ Logged
    \/ MoreLines /\ MacroStep(input[pos + 1]) /\ NextLine /\ Logged
    \/ MoreLines /\ PinStep(input[pos + 1]) /\ NextLine /\ Logged
    \/ MoreLines /\ PortStep(input[pos + 1]) /\ NextLine /\ Logged
    \/ MoreLines /\ ObsStep(input[pos + 1]) /\ NextLine /\ Logged
    \/ Restart

SpecTwice == InitFile /\ [][NextTwice]_vars

\* C13: a second parser, started in the process that has parsed the file
\* once, shows after every line what the first parser showed after that line:
\* the same outcome, the same record trees on the stack and the same
\* completed macros; it starts as the first did and stops where it did.
C13_SecondParseAlike ==
    run = 2 =>
      /\ pos <= Len(log)
      /\ pos = 0 => (stack = <<Len(heap)>> /\ heap[Len(heap)] = StatementInit
                      /\ macros = <<>> /\ status = "running")
      /\ pos > 0 => Snapshot = log[pos]
      /\ status # "running" => pos = Len(log)

C13_Witness ==
    /\ run = 2 /\ pos = Len(input) /\ status = "running"
    /\ Len(macros) = 1 /\ Cardinality(MacroIds(heap)) = 2
    /\ \A m \in MacroIds(heap) :
          /\ MacroTree(heap, m) = MacroTree(heap, macros[1])
          /\ Len(PinsOf(heap[m])) = 1
          /\ Has(PinTree(heap, PinsOf(heap[m])[1]).info, "PORT")

====
